---- MODULE Spec2Model ----
(***************************************************************************)
(* Model of the clipity Raycast extension: the setup view's installer     *)
(* state machine (setup.tsx), the shell helpers (utils.ts) and the trim   *)
(* form of the download command (download.tsx).                           *)
(*                                                                         *)
(* Strings the code inspects character by character (timestamps, the      *)
(* section argument) are sequences of one-character strings.  Strings the *)
(* code only passes around (log lines, toast titles) are TLA+ strings.    *)
(*                                                                         *)
(* An async function is a record with a pc that names the await it is     *)
(* suspended in.  One action is what runs between two awaits that wait    *)
(* for a task (a toast shown, a child process exited); an await whose     *)
(* promise is already settled only defers to a microtask, and microtasks  *)
(* run before any other task.  The view has no guard against starting a   *)
(* handler while another is pending, so activations overlap.              *)
(*                                                                         *)
(* Environment: in the setup view tools are installed from outside at any *)
(* time and are never removed; a successful install puts the binary into  *)
(* the first canonical directory; in SpecTrim the filesystem is fixed     *)
(* while the form is open.  SpecProbe and SpecFetch also remove tools.    *)
(* The output of a child process reaches its data handler in chunks that  *)
(* are cut anywhere, not only at line ends.                               *)
(*                                                                         *)
(* Spec        the setup view (installAll, installSingle)                 *)
(* SpecLive    the setup view with processes and toasts that finish       *)
(* SpecTrim    one trim form (handleSubmit, downloadVideo)                *)
(* SpecParse   parseTimeToSeconds on timestamps written from Components   *)
(* SpecStream  downloadVideo from the spawn to the return: the output of  *)
(*             the downloader arrives in chunks cut anywhere              *)
(* SpecLines   the data handler of brewInstall / installHomebrew          *)
(* SpecLocate  getBinPath on every content of the canonical directories   *)
(* SpecProbe   checkDeps while tools are installed and removed outside    *)
(* SpecFormat  formatDuration and parseTimeToSeconds of its result        *)
(* SpecFetch   the download view (handleFetch, fetchVideoInfo) and the    *)
(*             trim form it pushes                                        *)
(***************************************************************************)
EXTENDS Integers, Sequences, FiniteSets, TLC

VARIABLES
    fs,          \* the filesystem: set of <<directory, file name>> that exist
    deps,        \* Setup: useState<DepsStatus | null>
    installing,  \* Setup: useState(false)
    steps,       \* Setup: useState<Steps>
    runs,        \* Setup: the activations of installAll / installSingle
    formOpen,    \* TrimForm: the form is on the navigation stack
    isDownloading, \* TrimForm: useState(false)
    progress,    \* TrimForm: useState(0)
    dls,         \* TrimForm: the activations of handleSubmit
    pcomps,      \* timestamp parsing: the components the input is written from
    pin,         \* timestamp parsing: the input string
    pout,        \* timestamp parsing: the value parseTimeToSeconds returned
    pdone,       \* timestamp parsing: parseTimeToSeconds has returned
    out,         \* downloadVideo: everything the downloader writes before it exits
    sent,        \* downloadVideo: how much of out has arrived in data events
    lastFile,    \* downloadVideo: let lastFile
    calls,       \* downloadVideo: the percentages passed to opts.onProgress so far
    ret,         \* downloadVideo: the value the promise resolved with
    chunk,       \* brewInstall: the chunk a data event carries
    passed,      \* brewInstall: the lines that data event handed to onLine
    located,     \* getBinPath: the name asked for and the value returned
    report,      \* checkDeps: what the latest call resolved with
    earlier,     \* checkDeps: what the call before it resolved with
    fsecs,       \* formatDuration: the argument
    fstr,        \* formatDuration: the string returned
    fback,       \* formatDuration: parseTimeToSeconds of that string
    depsOk,      \* Download: useState<boolean | null>(null)
    isFetching,  \* Download: useState(false)
    fetches      \* Download: the activations of the fetch actions

setupVars  == <<deps, installing, steps, runs>>
trimVars   == <<formOpen, isDownloading, progress, dls>>
parseVars  == <<pcomps, pin, pout, pdone>>
streamVars == <<out, sent, lastFile, calls, ret>>
linesVars  == <<chunk, passed>>
probeVars  == <<located, report, earlier>>
formatVars == <<fsecs, fstr, fback>>
fetchVars  == <<depsOk, isFetching, fetches>>

\* the variables of the helpers and of the download view
restVars == <<streamVars, linesVars, probeVars, formatVars, fetchVars>>

vars == <<fs, setupVars, trimVars, parseVars, restVars>>

\* ------------------------------------------------------------------ bounds
\* number of install runs (activations of installAll / installSingle) started
MaxRuns == 2
\* number of handleSubmit activations of one trim form that can be pending
MaxDownloads == 1
\* number of colon-separated components of a timestamp input
MaxParts == 4
\* number of fetch activations of the download view started
MaxFetches == 2
\* number of lines the downloader writes
MaxLines == 2
\* number of pieces a chunk of installer output is written from
MaxPieces == 4
\* the longest duration formatted, in seconds
MaxSecs == 4000
\* number of handleSubmit activations pending at once in the trim form the
\* download view pushes
MaxSubmits == 2

\* ------------------------------------------------------- binary resolution
BREW_PATHS == <<"/opt/homebrew/bin", "/usr/local/bin", "/usr/bin">>

Null == <<>>

join(dir, name) == <<dir, name>>

existsSync(f, full) == full \in f

RECURSIVE getBinPathFrom(_, _, _)
getBinPathFrom(f, name, i) ==
    IF i > Len(BREW_PATHS) THEN Null
    ELSE IF existsSync(f, join(BREW_PATHS[i], name)) THEN join(BREW_PATHS[i], name)
    ELSE getBinPathFrom(f, name, i + 1)

\* faulty variant: the last directory that holds the file wins
getBinPath_Last(f, name) ==
    LET has == {i \in 1..Len(BREW_PATHS) : existsSync(f, join(BREW_PATHS[i], name))} IN
    IF has = {} THEN Null
    ELSE join(BREW_PATHS[CHOOSE i \in has : \A j \in has : j <= i], name)

getBinPath(f, name) == getBinPathFrom(f, name, 1)

getBrewPath(f) == getBinPath(f, "brew")

NullDeps == [null |-> TRUE]

checkDeps(f) ==
    [ brew       |-> getBrewPath(f) # Null,
      ytdlp      |-> getBinPath(f, "yt-dlp") # Null,
      ffmpeg     |-> getBinPath(f, "ffmpeg") # Null,
      brewPath   |-> getBrewPath(f),
      ytdlpPath  |-> getBinPath(f, "yt-dlp"),
      ffmpegPath |-> getBinPath(f, "ffmpeg") ]

\* ----------------------------------------------------------------- strings
\* A string the code takes apart is a sequence of one-character strings.  The
\* characters are the decimal digits, ":", " " and the letter "a"; within
\* them Number() is: surrounding blanks dropped, "" is 0, a run of digits is
\* its decimal value, anything else is NaN.
Digits == {"0", "1", "2", "3", "4", "5", "6", "7", "8", "9"}

DigitVal(c) == CASE c = "0" -> 0 [] c = "1" -> 1 [] c = "2" -> 2 [] c = "3" -> 3
                 [] c = "4" -> 4 [] c = "5" -> 5 [] c = "6" -> 6 [] c = "7" -> 7
                 [] c = "8" -> 8 [] c = "9" -> 9

\* an optional number: Null, or Some(n)
Some(n) == <<n>>

NaN == Null

RECURSIVE trimStart(_)
trimStart(s) == IF s # <<>> /\ Head(s) = " " THEN trimStart(Tail(s)) ELSE s

RECURSIVE trimEnd(_)
trimEnd(s) == IF s # <<>> /\ s[Len(s)] = " " THEN trimEnd(SubSeq(s, 1, Len(s) - 1)) ELSE s

\* String.prototype.trim
trim(s) == trimEnd(trimStart(s))

\* String.prototype.split(sep) for a one-character separator
RECURSIVE splitFrom(_, _, _)
splitFrom(s, sep, cur) ==
    LET at == {i \in 1..Len(s) : s[i] = sep} IN
    IF at = {} THEN <<cur \o s>>
    ELSE LET i == CHOOSE j \in at : \A k \in at : j <= k IN
         <<cur \o SubSeq(s, 1, i - 1)>> \o splitFrom(SubSeq(s, i + 1, Len(s)), sep, <<>>)

split(s, sep) == splitFrom(s, sep, <<>>)

RECURSIVE decimal(_, _)
decimal(s, acc) == IF s = <<>> THEN acc
                   ELSE decimal(Tail(s), 10 * acc + DigitVal(Head(s)))

\* Number(string)
Number(s) ==
    LET t == trim(s) IN
    IF t = <<>> THEN Some(0)
    ELSE IF \A i \in 1..Len(t) : t[i] \in Digits THEN Some(decimal(t, 0))
    ELSE NaN

isNaN(x) == x = NaN

\* parseTimeToSeconds(str): number | null
parseTimeToSeconds(str) ==
    IF trim(str) = <<>> THEN Null
    ELSE LET raw   == split(trim(str), ":")
             parts == [i \in 1..Len(raw) |-> Number(raw[i])]
         IN IF \E i \in 1..Len(parts) : isNaN(parts[i]) THEN Null
            ELSE IF Len(parts) = 3
                 THEN Some(parts[1][1] * 3600 + parts[2][1] * 60 + parts[3][1])
            ELSE IF Len(parts) = 2 THEN Some(parts[1][1] * 60 + parts[2][1])
            ELSE Some(parts[1][1])

\* ------------------------------------------------------------ setup: steps
StepKeys == {"brew", "ytdlp", "ffmpeg"}

StepOrder == <<"brew", "ytdlp", "ffmpeg">>

\* the file each step's install process puts on disk
BinName(key) == CASE key = "brew"   -> "brew"
                  [] key = "ytdlp"  -> "yt-dlp"
                  [] key = "ffmpeg" -> "ffmpeg"

IDLE == [state |-> "idle", log |-> ""]

\* upd: shallow merge of a partial StepStatus into steps[key]
upd(st, key, patch) ==
    [st EXCEPT ![key] =
        [fld \in DOMAIN @ |-> IF fld \in DOMAIN patch THEN patch[fld] ELSE @[fld]]]

\* the log each step shows while its install starts
StartLog(key) == CASE key = "brew"   -> "Installing Homebrew..."
                   [] key = "ytdlp"  -> "Installing yt-dlp..."
                   [] key = "ffmpeg" -> "Installing ffmpeg (takes a minute)..."

\* faulty variant: only the first step is marked skipped
SkippedPatch_OnlyBrew(key) == IF key = "brew" THEN [state |-> "skipped", log |-> ""]
                              ELSE [log |-> ""]

\* the patch installAll applies to a step whose dependency is present
SkippedPatch(key) == IF key = "brew" THEN [state |-> "skipped", log |-> ""]
                     ELSE [state |-> "skipped"]

FailTitle(key) == CASE key = "brew"   -> "Homebrew install failed"
                    [] key = "ytdlp"  -> "yt-dlp install failed"
                    [] key = "ffmpeg" -> "ffmpeg install failed"

\* String(e) of the two ways an install rejects
ErrNoBrew == "Error: Homebrew not found"
ErrExit   == "Error: Command failed"

\* lines a child process writes, as handed to the line callback
OutputLines == {"==> Pouring"}

\* where a successful install puts the binary
InstallPrefix == BREW_PATHS[1]

Installed(f, key) == f \cup {join(InstallPrefix, BinName(key))}

\* ------------------------------------------------------------ setup: runs
RunIds == 1..MaxRuns

\* an activation record of installAll / installSingle.
\*   pc: "free"  no activation in this slot
\*       "toast" suspended in `await showToast(...)`
\*       "wait"  suspended in `await proc` (the child process is in flight)
\*       "threw" brewInstall rejected without spawning; the catch runs next
\*       "ended" the function returned
\*   step: the step whose install the run is in;  fresh: freshDeps;
\*   spawned: the install processes the run has started so far, in order;
\*   failed: the step whose install failed;  toast: the title of its toast.
\* The locals (step, fresh, spawned) go when the function returns.
FreeRun == [kind |-> "none", key |-> "none", pc |-> "free", step |-> "none",
            fresh |-> NullDeps, spawned |-> <<>>, failed |-> "none",
            toast |-> "none"]

\* the record a returned activation leaves: how it ended and its toast
Returned(run, failedKey, title) ==
    [FreeRun EXCEPT !.kind = run.kind, !.key = run.key, !.pc = "ended",
                    !.failed = failedKey, !.toast = title]

IsFree(r) == runs[r].pc = "free"

\* the slot a new activation takes
NewRun(r) == IsFree(r) /\ \A q \in RunIds : q < r => ~IsFree(q)

\* a rejected promise's continuation runs before any other task
MicrotaskPending == \E r \in RunIds : runs[r].pc = "threw"

InFlight == {r \in RunIds : runs[r].pc = "wait"}

\* brewInstall up to its `await proc`: reject when brew is missing, else spawn
brewInstallCall(f, run, key) ==
    IF getBrewPath(f) = Null
    THEN [run EXCEPT !.pc = "threw", !.step = key]
    ELSE [run EXCEPT !.pc = "wait", !.step = key, !.spawned = Append(@, key)]

\* installHomebrew up to its `await proc`
installHomebrewCall(run) ==
    [run EXCEPT !.pc = "wait", !.step = "brew", !.spawned = Append(@, "brew")]

\* faulty variant: each step probes the filesystem anew instead of using freshDeps
RECURSIVE installAllFrom_Reprobe(_, _, _, _)
installAllFrom_Reprobe(i, f, st, run) ==
    IF i > Len(StepOrder)
    THEN [steps |-> st, run |-> Returned(run, "none", "All done!"), publish |-> TRUE]
    ELSE LET key == StepOrder[i] IN
         IF getBinPath(f, BinName(key)) # Null
         THEN installAllFrom_Reprobe(i + 1, f, upd(st, key, SkippedPatch(key)), run)
         ELSE [steps |-> upd(st, key, [state |-> "running", log |-> StartLog(key)]),
               run |-> IF key = "brew" THEN installHomebrewCall(run)
                       ELSE brewInstallCall(f, run, key),
               publish |-> FALSE]

\* installAll from the i-th step on, run without suspending: the steps are
\* marked from run.fresh (freshDeps) until an install is begun or all three
\* are through; then the snapshot is re-taken and published.
RECURSIVE installAllFrom(_, _, _, _)
installAllFrom(i, f, st, run) ==
    IF i > Len(StepOrder)
    THEN [steps |-> st,
          run |-> Returned(run, "none", "All done!"),
          publish |-> TRUE]
    ELSE LET key == StepOrder[i] IN
         IF run.fresh[key]
         THEN installAllFrom(i + 1, f, upd(st, key, SkippedPatch(key)), run)
         ELSE [steps |-> upd(st, key, [state |-> "running", log |-> StartLog(key)]),
               run |-> IF key = "brew" THEN installHomebrewCall(run)
                       ELSE brewInstallCall(f, run, key),
               publish |-> FALSE]

StepIndex(key) == CHOOSE i \in 1..Len(StepOrder) : StepOrder[i] = key

\* --------------------------------------------------- trim form: the records
DlIds == 1..MaxDownloads

\* the value of an option that was not given
Undefined == <<"undefined">>

NoValues == [startTime |-> <<>>, endTime |-> <<>>, format |-> "none"]

\* an activation record of TrimForm.handleSubmit.
\*   pc: "free"     no activation in this slot
\*       "rejected" returned after the validation failure toast
\*       "toast"    suspended in `await showToast(...)` before the download
\*       "wait"     suspended in downloadVideo's `await proc`
\*       "threw"    downloadVideo rejected without spawning; the catch runs next
\*       "hud"      suspended in `await showHUD(...)`
\*       "ended"    the function returned
\*   values: the submitted form values;  invoked: downloadVideo was called;
\*   args: the argument list the downloader was spawned with
FreeDl == [pc |-> "free", values |-> NoValues, invoked |-> FALSE, args |-> <<>>,
           toast |-> "none"]

TrimIdle ==
    /\ formOpen = FALSE
    /\ isDownloading = FALSE
    /\ progress = 0
    /\ dls = [r \in DlIds |-> FreeDl]

ParseIdle ==
    /\ pcomps = <<>>
    /\ pin = <<>>
    /\ pout = Null
    /\ pdone = FALSE

\* ---------------------------------------- helpers and download view: idle
FetchIds == 1..MaxFetches

\* an activation record of a fetch action of the download view.
\*   pc: "free"    no activation in this slot
\*       "clip"    suspended in `await Clipboard.readText()`
\*       "missing" suspended in the toast "Dependencies missing"
\*       "toast"   suspended in `await showToast(...)` before the fetch
\*       "wait"    suspended in fetchVideoInfo's `await execa(...)`
\*       "threw"   fetchVideoInfo rejected without spawning; the catch runs next
\*       "ended"   the function returned
\*   url: the argument of handleFetch;  seesFetching, seesDepsOk: isFetching
\*   and depsOk of the render whose handleFetch the activation runs;
\*   spawned: a downloader process was started;  toast: the title of its toast
FreeFetch == [pc |-> "free", url |-> <<>>, seesFetching |-> FALSE,
              seesDepsOk |-> "null", spawned |-> FALSE, toast |-> "none"]

StreamIdle ==
    /\ out = <<>>
    /\ sent = 0
    /\ lastFile = <<>>
    /\ calls = <<>>
    /\ ret = Null

LinesIdle ==
    /\ chunk = <<>>
    /\ passed = <<>>

\* getBinPath was not called
NotLocated == [name |-> "none", path |-> Null]

ProbeIdle ==
    /\ located = NotLocated
    /\ report = NullDeps
    /\ earlier = NullDeps

FormatIdle ==
    /\ fsecs = 0
    /\ fstr = <<>>
    /\ fback = Null

FetchIdle ==
    /\ depsOk = "null"
    /\ isFetching = FALSE
    /\ fetches = [r \in FetchIds |-> FreeFetch]

RestIdle == StreamIdle /\ LinesIdle /\ ProbeIdle /\ FormatIdle /\ FetchIdle

\* ------------------------------------------------------------- environment
Init ==
    /\ fs \in SUBSET {join(InstallPrefix, BinName(k)) : k \in StepKeys}
    /\ deps = NullDeps
    /\ installing = FALSE
    /\ steps = [k \in StepKeys |-> IDLE]
    /\ runs = [r \in RunIds |-> FreeRun]
    /\ TrimIdle /\ ParseIdle /\ RestIdle

\* useEffect: checkDeps().then(setDeps)
Mount ==
    /\ deps = NullDeps
    /\ deps' = checkDeps(fs)
    /\ UNCHANGED <<fs, installing, steps, runs>>
    /\ UNCHANGED <<trimVars, parseVars, restVars>>

\* something outside the extension installs a tool
ExternalInstall(key) ==
    /\ ~MicrotaskPending
    /\ fs # Installed(fs, key)
    /\ fs' = Installed(fs, key)
    /\ UNCHANGED <<deps, installing, steps, runs>>
    /\ UNCHANGED <<trimVars, parseVars, restVars>>

\* --------------------------------------------------------------- installAll
\* the view offers installAll on every row whose dependency is missing
InstallAllOffered ==
    /\ deps # NullDeps
    /\ (~deps.brew \/ ~deps.ytdlp \/ ~deps.ffmpeg \/ ~(deps.ytdlp /\ deps.ffmpeg))

\* faulty variant: the steps of the previous run are kept
StartInstallAll_NoReset(r) ==
    /\ ~MicrotaskPending
    /\ InstallAllOffered
    /\ NewRun(r)
    /\ installing' = TRUE
    /\ runs' = [runs EXCEPT ![r] = [FreeRun EXCEPT !.kind = "all", !.pc = "toast",
                                             !.toast = "Installing dependencies..."]]
    /\ UNCHANGED <<fs, deps, steps>>
    /\ UNCHANGED <<trimVars, parseVars, restVars>>

StartInstallAll(r) ==
    /\ ~MicrotaskPending
    /\ InstallAllOffered
    /\ NewRun(r)
    /\ installing' = TRUE
    /\ steps' = [k \in StepKeys |-> IDLE]
    /\ runs' = [runs EXCEPT ![r] = [FreeRun EXCEPT !.kind = "all", !.pc = "toast",
                                             !.toast = "Installing dependencies..."]]
    /\ UNCHANGED <<fs, deps>>
    /\ UNCHANGED <<trimVars, parseVars, restVars>>

\* showToast resolved: take freshDeps and go through the steps
AllToastShown(r) ==
    /\ ~MicrotaskPending
    /\ runs[r].kind = "all" /\ runs[r].pc = "toast"
    /\ LET res == installAllFrom(1, fs, steps, [runs[r] EXCEPT !.fresh = checkDeps(fs)]) IN
        /\ steps' = res.steps
        /\ runs' = [runs EXCEPT ![r] = res.run]
        /\ deps' = IF res.publish THEN checkDeps(fs) ELSE deps
        /\ installing' = IF res.publish THEN FALSE ELSE installing
    /\ UNCHANGED fs
    /\ UNCHANGED <<trimVars, parseVars, restVars>>

\* the child process exited 0: the step is done, the run goes on
AllProcSucceeds(r) ==
    /\ ~MicrotaskPending
    /\ runs[r].kind = "all" /\ runs[r].pc = "wait"
    /\ LET key == runs[r].step
           f   == Installed(fs, key)
           res == installAllFrom(StepIndex(key) + 1, f,
                                 upd(steps, key, [state |-> "done"]), runs[r]) IN
        /\ fs' = f
        /\ steps' = res.steps
        /\ runs' = [runs EXCEPT ![r] = res.run]
        /\ deps' = IF res.publish THEN checkDeps(f) ELSE deps
        /\ installing' = IF res.publish THEN FALSE ELSE installing
    /\ UNCHANGED <<trimVars, parseVars, restVars>>

\* the catch of a step's try block
installAllCatch(st, run, err) ==
    [steps |-> upd(st, run.step, [state |-> "error", log |-> err]),
     run |-> Returned(run, run.step, FailTitle(run.step))]

\* the child process exited non-zero
AllProcFails(r) ==
    /\ ~MicrotaskPending
    /\ runs[r].kind = "all" /\ runs[r].pc = "wait"
    /\ LET res == installAllCatch(steps, runs[r], ErrExit) IN
        /\ steps' = res.steps
        /\ runs' = [runs EXCEPT ![r] = res.run]
    /\ installing' = FALSE
    /\ UNCHANGED <<fs, deps>>
    /\ UNCHANGED <<trimVars, parseVars, restVars>>

\* the line callbacks: (line) => upd(key, { log: line })
OutputLine(r, line) ==
    /\ ~MicrotaskPending
    /\ runs[r].pc = "wait"
    /\ steps' = upd(steps, runs[r].step, [log |-> line])
    /\ UNCHANGED <<fs, deps, installing, runs>>
    /\ UNCHANGED <<trimVars, parseVars, restVars>>

\* ------------------------------------------------------------ installSingle
\* installSingle(pkg) works on the step of pkg ("yt-dlp" -> ytdlp, "ffmpeg")
SingleKeys == {"ytdlp", "ffmpeg"}

SingleLog(key) == IF key = "ytdlp" THEN "Installing yt-dlp..." ELSE "Installing ffmpeg..."

\* the view offers installSingle on the row of a missing package
InstallSingleOffered(key) ==
    /\ deps # NullDeps
    /\ ~deps[key]

StartInstallSingle_Reset(r, key) ==
    /\ ~MicrotaskPending
    /\ InstallSingleOffered(key)
    /\ NewRun(r)
    /\ installing' = TRUE
    /\ steps' = upd([k \in StepKeys |-> IDLE], key,
                    [state |-> "running", log |-> SingleLog(key)])
    /\ runs' = [runs EXCEPT ![r] = [FreeRun EXCEPT !.kind = "single", !.key = key,
                                             !.pc = "toast", !.toast = "Installing..."]]
    /\ UNCHANGED <<fs, deps>>
    /\ UNCHANGED <<trimVars, parseVars, restVars>>

StartInstallSingle(r, key) ==
    /\ ~MicrotaskPending
    /\ InstallSingleOffered(key)
    /\ NewRun(r)
    /\ installing' = TRUE
    /\ steps' = upd(steps, key, [state |-> "running", log |-> SingleLog(key)])
    /\ runs' = [runs EXCEPT ![r] = [FreeRun EXCEPT !.kind = "single", !.key = key,
                                             !.pc = "toast", !.toast = "Installing..."]]
    /\ UNCHANGED <<fs, deps>>
    /\ UNCHANGED <<trimVars, parseVars, restVars>>

\* showToast resolved: brewInstall is called
SingleToastShown(r) ==
    /\ ~MicrotaskPending
    /\ runs[r].kind = "single" /\ runs[r].pc = "toast"
    /\ runs' = [runs EXCEPT ![r] = brewInstallCall(fs, runs[r], runs[r].key)]
    /\ UNCHANGED <<fs, deps, installing, steps>>
    /\ UNCHANGED <<trimVars, parseVars, restVars>>

\* the child process exited 0
SingleProcSucceeds(r) ==
    /\ ~MicrotaskPending
    /\ runs[r].kind = "single" /\ runs[r].pc = "wait"
    /\ fs' = Installed(fs, runs[r].key)
    /\ steps' = upd(steps, runs[r].key, [state |-> "done"])
    /\ deps' = checkDeps(fs')
    /\ installing' = FALSE
    /\ runs' = [runs EXCEPT ![r] = Returned(runs[r], "none", "installed!")]
    /\ UNCHANGED <<trimVars, parseVars, restVars>>

\* the catch of installSingle
installSingleCatch(st, run, err) ==
    [steps |-> upd(st, run.key, [state |-> "error", log |-> err]),
     run |-> Returned(run, run.key, "Failed to install")]

\* the child process exited non-zero
SingleProcFails(r) ==
    /\ ~MicrotaskPending
    /\ runs[r].kind = "single" /\ runs[r].pc = "wait"
    /\ LET res == installSingleCatch(steps, runs[r], ErrExit) IN
        /\ steps' = res.steps
        /\ runs' = [runs EXCEPT ![r] = res.run]
    /\ installing' = FALSE
    /\ UNCHANGED <<fs, deps>>
    /\ UNCHANGED <<trimVars, parseVars, restVars>>

\* brewInstall rejected because brew is missing: the catch of the caller runs
CatchThrow(r) ==
    /\ runs[r].pc = "threw"
    /\ LET res == IF runs[r].kind = "all"
                  THEN installAllCatch(steps, runs[r], ErrNoBrew)
                  ELSE installSingleCatch(steps, runs[r], ErrNoBrew) IN
        /\ steps' = res.steps
        /\ runs' = [runs EXCEPT ![r] = res.run]
    /\ installing' = FALSE
    /\ UNCHANGED <<fs, deps>>
    /\ UNCHANGED <<trimVars, parseVars, restVars>>

\* ------------------------------------------------------------ specification
Next ==
    \/ Mount
    \/ \E k \in StepKeys : ExternalInstall(k)
    \/ \E r \in RunIds : StartInstallAll(r)
    \/ \E r \in RunIds : AllToastShown(r)
    \/ \E r \in RunIds : AllProcSucceeds(r)
    \/ \E r \in RunIds : AllProcFails(r)
    \/ \E r \in RunIds, k \in SingleKeys : StartInstallSingle(r, k)
    \/ \E r \in RunIds : SingleToastShown(r)
    \/ \E r \in RunIds : SingleProcSucceeds(r)
    \/ \E r \in RunIds : SingleProcFails(r)
    \/ \E r \in RunIds : CatchThrow(r)
    \/ \E r \in RunIds, l \in OutputLines : OutputLine(r, l)

Spec == Init /\ [][Next]_vars

\* every toast gets shown and every child process exits, one way or the
\* other; a rejected promise's continuation runs
Finishes(r) ==
    /\ WF_vars(AllToastShown(r))
    /\ WF_vars(AllProcSucceeds(r) \/ AllProcFails(r))
    /\ WF_vars(SingleToastShown(r))
    /\ WF_vars(SingleProcSucceeds(r) \/ SingleProcFails(r))
    /\ WF_vars(CatchThrow(r))

SpecLive == Spec /\ \A r \in RunIds : Finishes(r)

\* ================================================================ trim form
\* ------------------------------------------------------------ downloadVideo
Truthy(x) == x # <<>> /\ x # Undefined

OrElse(x, d) == IF Truthy(x) THEN x ELSE d

\* an argument is a sequence of the pieces it is concatenated from
Lit(str) == <<str>>

outDir == "~/Downloads/clipity"

\* the options handleSubmit passes: `values.startTime || undefined`, ...
submitOpts(values) ==
    [ url       |-> "info.url",
      startTime |-> OrElse(values.startTime, Undefined),
      endTime   |-> OrElse(values.endTime, Undefined),
      format    |-> values.format,
      quality   |-> Undefined ]

formatArgs(opts) ==
    IF opts.format = "audio"
    THEN <<Lit("-x"), Lit("--audio-format"), Lit("mp3"), Lit("--audio-quality"), Lit("0")>>
    ELSE LET h == IF Truthy(opts.quality) /\ opts.quality # <<"b", "e", "s", "t">>
                  THEN <<"[height<=">> \o opts.quality \o <<"]">>
                  ELSE <<>>
         IN << Lit("-f"),
               <<"bestvideo">> \o h \o <<"[ext=mp4]+bestaudio[ext=m4a]/best">> \o h
                   \o <<"[ext=mp4]/best">>,
               Lit("--merge-output-format"), Lit("mp4") >>

hasStart(opts) == Truthy(opts.startTime) /\ opts.startTime # <<"0", "0", ":", "0", "0">>

hasEnd(opts) == Truthy(opts.endTime)

trimArgs(opts) ==
    IF hasStart(opts) \/ hasEnd(opts)
    THEN LET s == OrElse(opts.startTime, <<"0">>)
             e == OrElse(opts.endTime, <<"i", "n", "f">>)
         IN << Lit("--download-sections"), <<"*">> \o s \o <<"-">> \o e,
               Lit("--force-keyframes-at-cuts") >>
    ELSE <<>>

\* the argument list downloadVideo builds; ffmpeg is the located transcoder
downloadArgs(opts, ffmpeg) ==
    << Lit("--no-playlist"), Lit("--newline"), Lit("-o"),
       <<outDir, "/%(title)s.%(ext)s">>, Lit("--ffmpeg-location"), Lit(ffmpeg[1]) >>
    \o formatArgs(opts) \o trimArgs(opts) \o <<Lit(opts.url)>>

\* downloadVideo up to its `await proc`: reject when a tool is missing, else
\* spawn the downloader with the arguments built from opts
downloadVideoCall(f, dl, opts) ==
    LET ytdlp  == getBinPath(f, "yt-dlp")
        ffmpeg == getBinPath(f, "ffmpeg")
    IN IF ytdlp = Null
       THEN [dl EXCEPT !.pc = "threw", !.invoked = TRUE,
                       !.toast = "Error: yt-dlp not installed. Run the Setup command."]
       ELSE IF ffmpeg = Null
       THEN [dl EXCEPT !.pc = "threw", !.invoked = TRUE,
                       !.toast = "Error: ffmpeg not installed. Run the Setup command."]
       ELSE [dl EXCEPT !.pc = "wait", !.invoked = TRUE,
                       !.args = downloadArgs(opts, ffmpeg)]

\* ------------------------------------------------------------- handleSubmit
\* what the user can type into a time field
TimeInputs == { <<>>, <<"0", "0", ":", "0", "0">>, <<"0">>,
                <<"0", "0", ":", "0", "5">>, <<"0", "0", ":", "1", "0">>, <<"a">> }

FormValues == [startTime : TimeInputs, endTime : TimeInputs, format : {"video", "audio"}]

\* faulty variant: equal start and end pass the validation
invalidRange_Strict(startSecs, endSecs) ==
    startSecs # Null /\ endSecs # Null /\ startSecs[1] > endSecs[1]

\* the validation of handleSubmit
invalidRange(startSecs, endSecs) ==
    startSecs # Null /\ endSecs # Null /\ startSecs[1] >= endSecs[1]

DlFree(r) == dls[r].pc \in {"free", "rejected", "ended"}

NewDl(r) == DlFree(r) /\ \A q \in DOMAIN dls : q < r => ~DlFree(q)

DlMicrotaskPending == \E r \in DOMAIN dls : dls[r].pc = "threw"

DlInFlight == {r \in DOMAIN dls : dls[r].pc = "wait"}

\* the record a returned activation leaves
DlReturned(title) == [FreeDl EXCEPT !.pc = "ended", !.toast = title]

InitTrim ==
    /\ fs \in SUBSET {join(InstallPrefix, "yt-dlp"), join(InstallPrefix, "ffmpeg")}
    /\ deps = NullDeps
    /\ installing = FALSE
    /\ steps = [k \in StepKeys |-> IDLE]
    /\ runs = [r \in RunIds |-> FreeRun]
    /\ formOpen = TRUE
    /\ isDownloading = FALSE
    /\ progress = 0
    /\ dls = [r \in DlIds |-> FreeDl]
    /\ ParseIdle /\ RestIdle

\* the user submits the form: validation, then the toast before the download
Submit(r, values) ==
    /\ ~DlMicrotaskPending
    /\ formOpen
    /\ NewDl(r)
    /\ LET startSecs == parseTimeToSeconds(values.startTime)
           endSecs   == parseTimeToSeconds(values.endTime)
       IN IF invalidRange(startSecs, endSecs)
          THEN /\ dls' = [dls EXCEPT ![r] = [FreeDl EXCEPT !.pc = "rejected",
                                 !.values = values, !.toast = "Invalid trim range"]]
               /\ UNCHANGED <<isDownloading, progress>>
          ELSE /\ isDownloading' = TRUE
               /\ progress' = 0
               /\ dls' = [dls EXCEPT ![r] = [FreeDl EXCEPT !.pc = "toast",
                                 !.values = values, !.toast = "Downloading..."]]
    /\ UNCHANGED <<fs, formOpen, setupVars, parseVars, restVars>>

\* showToast resolved: downloadVideo is called
DlToastShown(r) ==
    /\ ~DlMicrotaskPending
    /\ dls[r].pc = "toast"
    /\ dls' = [dls EXCEPT ![r] = downloadVideoCall(fs, dls[r], submitOpts(dls[r].values))]
    /\ UNCHANGED <<fs, formOpen, isDownloading, progress, setupVars, parseVars, restVars>>

\* downloadVideo rejected (a tool is missing): the catch of handleSubmit
DlCatchThrow(r) ==
    /\ dls[r].pc = "threw"
    /\ dls' = [dls EXCEPT ![r] = DlReturned("Download failed")]
    /\ isDownloading' = FALSE
    /\ UNCHANGED <<fs, formOpen, progress, setupVars, parseVars, restVars>>

\* the downloader exited non-zero: the catch of handleSubmit
DlProcFails(r) ==
    /\ ~DlMicrotaskPending
    /\ dls[r].pc = "wait"
    /\ dls' = [dls EXCEPT ![r] = DlReturned("Download failed")]
    /\ isDownloading' = FALSE
    /\ UNCHANGED <<fs, formOpen, progress, setupVars, parseVars, restVars>>

\* the downloader exited 0: the success toast, then `await showHUD(...)`
DlProcSucceeds(r) ==
    /\ ~DlMicrotaskPending
    /\ dls[r].pc = "wait"
    /\ dls' = [dls EXCEPT ![r] = [@ EXCEPT !.pc = "hud", !.toast = "Download complete!"]]
    /\ UNCHANGED <<fs, formOpen, isDownloading, progress, setupVars, parseVars, restVars>>

\* showHUD resolved: pop() and setIsDownloading(false)
DlHudShown(r) ==
    /\ ~DlMicrotaskPending
    /\ dls[r].pc = "hud"
    /\ formOpen' = FALSE
    /\ isDownloading' = FALSE
    /\ dls' = [dls EXCEPT ![r] = DlReturned("Download complete!")]
    /\ UNCHANGED <<fs, progress, setupVars, parseVars, restVars>>

NextTrim ==
    \/ \E r \in DlIds, v \in FormValues : Submit(r, v)
    \/ \E r \in DlIds : DlToastShown(r)
    \/ \E r \in DlIds : DlCatchThrow(r)
    \/ \E r \in DlIds : DlProcFails(r)
    \/ \E r \in DlIds : DlProcSucceeds(r)
    \/ \E r \in DlIds : DlHudShown(r)

SpecTrim == InitTrim /\ [][NextTrim]_vars

\* ======================================================== timestamp parsing
\* the components a timestamp input is written from
Components == { <<>>, <<"5">>, <<"0", "1">>, <<"0", "2">>, <<"0", "3">>,
                <<"4", "5">>, <<"a">>, <<"1", "a">>, <<" ">> }

RECURSIVE JoinColon(_)
JoinColon(cs) == IF Len(cs) = 1 THEN cs[1]
                 ELSE cs[1] \o <<":">> \o JoinColon(Tail(cs))

ComponentLists == UNION {[1..n -> Components] : n \in 1..MaxParts}

InitParse ==
    /\ fs = {}
    /\ deps = NullDeps
    /\ installing = FALSE
    /\ steps = [k \in StepKeys |-> IDLE]
    /\ runs = [r \in RunIds |-> FreeRun]
    /\ TrimIdle /\ RestIdle
    /\ pcomps \in ComponentLists
    /\ pin = JoinColon(pcomps)
    /\ pout = Null
    /\ pdone = FALSE

ParseCall ==
    /\ ~pdone
    /\ pout' = parseTimeToSeconds(pin)
    /\ pdone' = TRUE
    /\ UNCHANGED <<fs, setupVars, trimVars, pcomps, pin, restVars>>

NextParse == ParseCall

SpecParse == InitParse /\ [][NextParse]_vars


\* ============================================== downloadVideo: the output
\* ------------------------------------------------------- the three patterns
DestinationPrefix ==
    <<"[", "d", "o", "w", "n", "l", "o", "a", "d", "]", " ", "D", "e", "s",
      "t", "i", "n", "a", "t", "i", "o", "n", ":", " ">>

MergerPrefix ==
    <<"[", "M", "e", "r", "g", "e", "r", "]", " ", "M", "e", "r", "g", "i",
      "n", "g", " ", "f", "o", "r", "m", "a", "t", "s", " ", "i", "n", "t",
      "o", " ", "\"">>

\* the length of the run of decimal digits of s that starts at index i
RECURSIVE digitRun(_, _)
digitRun(s, i) == IF i <= Len(s) /\ s[i] \in Digits THEN 1 + digitRun(s, i + 1) ELSE 0

\* /(\d+\.?\d*)%/ tried at index i: the text of group 1, or Null.  The digits
\* are taken greedily; what follows them is "%", or "." with more digits and
\* then "%" (giving digits back never helps: a digit or "." would follow).
pctMatchAt(s, i) ==
    LET k == digitRun(s, i)
        m == digitRun(s, i + k + 1)
    IN IF k = 0 THEN Null
       ELSE IF i + k <= Len(s) /\ s[i + k] = "%" THEN Some(SubSeq(s, i, i + k - 1))
       ELSE IF /\ i + k <= Len(s) /\ s[i + k] = "."
               /\ i + k + 1 + m <= Len(s) /\ s[i + k + 1 + m] = "%"
            THEN Some(SubSeq(s, i, i + k + m))
       ELSE Null

\* line.match(/(\d+\.?\d*)%/): group 1 of the leftmost match, or Null
RECURSIVE pctMatchFrom(_, _)
pctMatchFrom(s, i) ==
    IF i > Len(s) THEN Null
    ELSE IF pctMatchAt(s, i) # Null THEN pctMatchAt(s, i)
    ELSE pctMatchFrom(s, i + 1)

pctMatch(line) == pctMatchFrom(line, 1)

\* Math.round(parseFloat(text)) for text of the form digits [ "." digits ]
roundFloat(text) ==
    LET k == digitRun(text, 1) IN
    decimal(SubSeq(text, 1, k), 0)
    + (IF k + 2 <= Len(text) /\ DigitVal(text[k + 2]) >= 5 THEN 1 ELSE 0)

\* the index of the leftmost occurrence of pat in s at or after i, or 0
RECURSIVE indexFrom(_, _, _)
indexFrom(s, pat, i) ==
    IF i + Len(pat) - 1 > Len(s) THEN 0
    ELSE IF SubSeq(s, i, i + Len(pat) - 1) = pat THEN i
    ELSE indexFrom(s, pat, i + 1)

\* the index of the last occurrence of character c in s after index i, or 0
RECURSIVE lastIndexAfter(_, _, _)
lastIndexAfter(s, c, i) ==
    IF Len(s) <= i THEN 0
    ELSE IF s[Len(s)] = c THEN Len(s)
    ELSE lastIndexAfter(SubSeq(s, 1, Len(s) - 1), c, i)

\* line.match(/\[download\] Destination: (.+)/): group 1, or Null
destinationMatch(line) ==
    LET p == indexFrom(line, DestinationPrefix, 1)
        b == p + Len(DestinationPrefix)
    IN IF p = 0 \/ b > Len(line) THEN Null
       ELSE Some(SubSeq(line, b, Len(line)))

\* line.match(/\[Merger\] Merging formats into "(.+)"/): group 1, or Null;
\* (.+) is greedy, so it runs up to the last quote of the line
mergerMatch(line) ==
    LET p == indexFrom(line, MergerPrefix, 1)
        b == p + Len(MergerPrefix)
        q == lastIndexAfter(line, "\"", b)
    IN IF p = 0 \/ q = 0 THEN Null
       ELSE Some(SubSeq(line, b, q - 1))

\* destMatch: the destination pattern, else the merger pattern
destMatch(line) ==
    IF destinationMatch(line) # Null THEN destinationMatch(line) ELSE mergerMatch(line)

\* chunk.toString().split("\n").filter(Boolean)
nonEmptyLines(text) == SelectSeq(split(text, "\n"), LAMBDA l : l # <<>>)

\* the body of the `for (const line of lines)` loop, from the i-th line on:
\* the percentages passed to onProgress and the value of lastFile after it
RECURSIVE scanLines(_, _, _, _)
scanLines(lines, i, pcts, file) ==
    IF i > Len(lines) THEN [calls |-> pcts, lastFile |-> file]
    ELSE LET line == lines[i] IN
         scanLines(lines, i + 1,
                   IF pctMatch(line) # Null
                   THEN Append(pcts, roundFloat(pctMatch(line)[1])) ELSE pcts,
                   IF destMatch(line) # Null THEN trim(destMatch(line)[1]) ELSE file)

\* proc.all.on("data", ...) of downloadVideo
onData(text, pcts, file) == scanLines(nonEmptyLines(text), 1, pcts, file)

\* ------------------------------------------------------------- the process
\* lines the downloader writes
StreamLines ==
    { DestinationPrefix \o <<"p", "1">>,
      MergerPrefix \o <<"q", "2", "\"">>,
      <<"4", "2", ".", "5", "%">>,
      <<"7", "%">>,
      <<"2", "5", "0", "%">>,
      <<"x">> }

\* the lines, each ended by a newline
RECURSIVE JoinLines(_)
JoinLines(ls) == IF ls = <<>> THEN <<>>
                 ELSE Head(ls) \o <<"\n">> \o JoinLines(Tail(ls))

LineLists == UNION {[1..n -> StreamLines] : n \in 0..MaxLines}

\* what ret holds when the promise of downloadVideo rejected
Rejected == Some(Lit("rejected"))

InitStream ==
    /\ fs = {join(InstallPrefix, "yt-dlp"), join(InstallPrefix, "ffmpeg")}
    /\ deps = NullDeps
    /\ installing = FALSE
    /\ steps = [k \in StepKeys |-> IDLE]
    /\ runs = [r \in RunIds |-> FreeRun]
    /\ TrimIdle /\ ParseIdle
    /\ LinesIdle /\ ProbeIdle /\ FormatIdle /\ FetchIdle
    /\ out \in {JoinLines(ls) : ls \in LineLists}
    /\ sent = 0
    /\ lastFile = <<>>
    /\ calls = <<>>
    /\ ret = Null

notStream == <<fs, setupVars, trimVars, parseVars, linesVars, probeVars,
               formatVars, fetchVars>>

\* a data event: the next n characters of the output arrive as one chunk
Data(n) ==
    /\ ret = Null
    /\ sent + n <= Len(out)
    /\ LET res == onData(SubSeq(out, sent + 1, sent + n), calls, lastFile) IN
        /\ calls' = res.calls
        /\ lastFile' = res.lastFile
    /\ sent' = sent + n
    /\ UNCHANGED <<out, ret>>
    /\ UNCHANGED notStream

\* the downloader exited 0 after all its output arrived: return lastFile || outDir
StreamProcSucceeds ==
    /\ ret = Null
    /\ sent = Len(out)
    /\ ret' = Some(IF lastFile # <<>> THEN lastFile ELSE Lit(outDir))
    /\ UNCHANGED <<out, sent, lastFile, calls>>
    /\ UNCHANGED notStream

\* the downloader exited non-zero: `await proc` rejects
StreamProcFails ==
    /\ ret = Null
    /\ sent = Len(out)
    /\ ret' = Rejected
    /\ UNCHANGED <<out, sent, lastFile, calls>>
    /\ UNCHANGED notStream

NextStream ==
    \/ \E n \in 1..(Len(out) - sent) : Data(n)
    \/ StreamProcSucceeds
    \/ StreamProcFails

SpecStream == InitStream /\ [][NextStream]_vars

\* ============================================================ download view
\* a boolean | null of the view's state, as the string it prints as
Bool3(b) == IF b THEN "true" ELSE "false"

\* the record a returned fetch activation leaves
FetchReturned(f, title) ==
    [FreeFetch EXCEPT !.pc = "ended", !.spawned = f.spawned, !.toast = title]

FetchFree(r) == fetches[r].pc = "free"

\* the slot a new activation takes
NewFetch(r) == FetchFree(r) /\ \A q \in FetchIds : q < r => ~FetchFree(q)

FetchMicrotaskPending == \E r \in FetchIds : fetches[r].pc = "threw"

FetchInFlight == {r \in FetchIds : fetches[r].pc = "wait"}

\* what the search bar or the clipboard can hold
VideoUrl == <<"h", "t", "t", "p", "s", ":", "/", "/", "v">>

ClipTexts == {<<>>, <<" ">>, VideoUrl}

\* the activations of handleSubmit of the trim form the view pushes
SubmitIds == 1..MaxSubmits

\* the values submitted in the trim form the view pushes
FetchFormValues == {[startTime |-> <<>>, endTime |-> <<>>, format |-> "video"]}

\* faulty variant: the downloader is spawned without looking for it first
fetchVideoInfoCall_NoCheck(f, rec) ==
    [rec EXCEPT !.pc = "wait", !.spawned = TRUE]

\* fetchVideoInfo up to its `await execa(...)`: reject when the downloader is
\* missing, else spawn it
fetchVideoInfoCall(f, rec) ==
    IF getBinPath(f, "yt-dlp") = Null
    THEN [rec EXCEPT !.pc = "threw",
                     !.toast = "Error: yt-dlp not installed. Run the Setup command first."]
    ELSE [rec EXCEPT !.pc = "wait", !.spawned = TRUE]

\* handleFetch(url) up to its first await, run with the isFetching and depsOk
\* of the render it was created in
handleFetchCall(rec, url) ==
    IF trim(url) = <<>> \/ rec.seesFetching
    THEN [rec |-> FetchReturned(rec, "none"), fetching |-> FALSE]
    ELSE IF rec.seesDepsOk # "true"
    THEN [rec |-> [rec EXCEPT !.pc = "missing", !.url = url,
                              !.toast = "Dependencies missing"],
          fetching |-> FALSE]
    ELSE [rec |-> [rec EXCEPT !.pc = "toast", !.url = url,
                              !.toast = "Fetching video info..."],
          fetching |-> TRUE]

InitFetch ==
    /\ fs \in SUBSET {join(InstallPrefix, "yt-dlp"), join(InstallPrefix, "ffmpeg")}
    /\ deps = NullDeps
    /\ installing = FALSE
    /\ steps = [k \in StepKeys |-> IDLE]
    /\ runs = [r \in RunIds |-> FreeRun]
    /\ formOpen = FALSE
    /\ isDownloading = FALSE
    /\ progress = 0
    /\ dls = [r \in SubmitIds |-> FreeDl]
    /\ ParseIdle
    /\ StreamIdle /\ LinesIdle /\ ProbeIdle /\ FormatIdle /\ FetchIdle

notFetch == <<setupVars, parseVars, streamVars, linesVars, probeVars, formatVars>>

\* useEffect: checkDeps, then setDepsOk(deps.ytdlp && deps.ffmpeg)
DownloadMount ==
    /\ depsOk = "null"
    /\ depsOk' = Bool3(checkDeps(fs).ytdlp /\ checkDeps(fs).ffmpeg)
    /\ UNCHANGED <<fs, isFetching, fetches, trimVars>>
    /\ UNCHANGED notFetch

\* something outside the extension installs or removes the downloader or the
\* transcoder
ToolInstalled(key) ==
    /\ ~FetchMicrotaskPending /\ ~DlMicrotaskPending
    /\ fs # Installed(fs, key)
    /\ fs' = Installed(fs, key)
    /\ UNCHANGED <<fetchVars, trimVars>>
    /\ UNCHANGED notFetch

ToolRemoved(key) ==
    /\ ~FetchMicrotaskPending /\ ~DlMicrotaskPending
    /\ join(InstallPrefix, BinName(key)) \in fs
    /\ fs' = fs \ {join(InstallPrefix, BinName(key))}
    /\ UNCHANGED <<fetchVars, trimVars>>
    /\ UNCHANGED notFetch

\* the action "Fetch Video": handleFetch(searchText) of the current render
FetchVideo(r) ==
    /\ ~FetchMicrotaskPending /\ ~DlMicrotaskPending
    /\ depsOk # "null" /\ ~formOpen
    /\ ~isFetching
    /\ NewFetch(r)
    /\ LET res == handleFetchCall([FreeFetch EXCEPT !.seesFetching = isFetching,
                                                    !.seesDepsOk = depsOk], VideoUrl) IN
        /\ fetches' = [fetches EXCEPT ![r] = res.rec]
        /\ isFetching' = (isFetching \/ res.fetching)
    /\ UNCHANGED <<fs, depsOk, trimVars>>
    /\ UNCHANGED notFetch

\* the action "Paste URL and Fetch": suspended in Clipboard.readText(), holding
\* the handleFetch of the render the action was triggered in
PasteAndFetch(r) ==
    /\ ~FetchMicrotaskPending /\ ~DlMicrotaskPending
    /\ depsOk # "null" /\ ~formOpen
    /\ NewFetch(r)
    /\ fetches' = [fetches EXCEPT ![r] = [FreeFetch EXCEPT !.pc = "clip",
                                              !.seesFetching = isFetching,
                                              !.seesDepsOk = depsOk]]
    /\ UNCHANGED <<fs, depsOk, isFetching, trimVars>>
    /\ UNCHANGED notFetch

\* Clipboard.readText() resolved: handleFetch(clip), or the toast "No URL in
\* clipboard"
ClipboardRead(r, clip) ==
    /\ ~FetchMicrotaskPending /\ ~DlMicrotaskPending
    /\ fetches[r].pc = "clip"
    /\ LET res == IF clip = <<>>
                  THEN [rec |-> [fetches[r] EXCEPT !.pc = "missing",
                                                   !.toast = "No URL in clipboard"],
                        fetching |-> FALSE]
                  ELSE handleFetchCall(fetches[r], clip) IN
        /\ fetches' = [fetches EXCEPT ![r] = res.rec]
        /\ isFetching' = (isFetching \/ res.fetching)
    /\ UNCHANGED <<fs, depsOk, trimVars>>
    /\ UNCHANGED notFetch

\* the failure toast is shown: the handler returns
FailureToastShown(r) ==
    /\ ~FetchMicrotaskPending /\ ~DlMicrotaskPending
    /\ fetches[r].pc = "missing"
    /\ fetches' = [fetches EXCEPT ![r] = FetchReturned(@, @.toast)]
    /\ UNCHANGED <<fs, depsOk, isFetching, trimVars>>
    /\ UNCHANGED notFetch

\* showToast resolved: fetchVideoInfo is called
FetchToastShown(r) ==
    /\ ~FetchMicrotaskPending /\ ~DlMicrotaskPending
    /\ fetches[r].pc = "toast"
    /\ fetches' = [fetches EXCEPT ![r] = fetchVideoInfoCall(fs, @)]
    /\ UNCHANGED <<fs, depsOk, isFetching, trimVars>>
    /\ UNCHANGED notFetch

\* fetchVideoInfo rejected (the downloader is missing): the catch of handleFetch
FetchCatchThrow(r) ==
    /\ fetches[r].pc = "threw"
    /\ fetches' = [fetches EXCEPT ![r] = FetchReturned(@, "Could not fetch video")]
    /\ isFetching' = FALSE
    /\ UNCHANGED <<fs, depsOk, trimVars>>
    /\ UNCHANGED notFetch

\* the downloader exited non-zero or printed no JSON: the catch of handleFetch
FetchProcFails(r) ==
    /\ ~FetchMicrotaskPending /\ ~DlMicrotaskPending
    /\ fetches[r].pc = "wait"
    /\ fetches' = [fetches EXCEPT ![r] = FetchReturned(@, "Could not fetch video")]
    /\ isFetching' = FALSE
    /\ UNCHANGED <<fs, depsOk, trimVars>>
    /\ UNCHANGED notFetch

\* the downloader printed the video's JSON: the trim form is pushed (a form
\* pushed over an open one is not told apart from it)
FetchProcSucceeds(r) ==
    /\ ~FetchMicrotaskPending /\ ~DlMicrotaskPending
    /\ fetches[r].pc = "wait"
    /\ fetches' = [fetches EXCEPT ![r] = FetchReturned(@, "none")]
    /\ formOpen' = TRUE
    /\ isFetching' = FALSE
    /\ UNCHANGED <<fs, depsOk, isDownloading, progress, dls>>
    /\ UNCHANGED notFetch

NextFetch ==
    \/ DownloadMount
    \/ \E k \in SingleKeys : ToolInstalled(k)
    \/ \E k \in SingleKeys : ToolRemoved(k)
    \/ \E r \in FetchIds : FetchVideo(r)
    \/ \E r \in FetchIds : PasteAndFetch(r)
    \/ \E r \in FetchIds, c \in ClipTexts : ClipboardRead(r, c)
    \/ \E r \in FetchIds : FailureToastShown(r)
    \/ \E r \in FetchIds : FetchToastShown(r)
    \/ \E r \in FetchIds : FetchCatchThrow(r)
    \/ \E r \in FetchIds : FetchProcFails(r)
    \/ \E r \in FetchIds : FetchProcSucceeds(r)
    \/ \E r \in SubmitIds, v \in FetchFormValues : ~FetchMicrotaskPending /\ Submit(r, v)
    \/ \E r \in SubmitIds : ~FetchMicrotaskPending /\ DlToastShown(r)
    \/ \E r \in SubmitIds : DlCatchThrow(r)
    \/ \E r \in SubmitIds : ~FetchMicrotaskPending /\ DlProcFails(r)
    \/ \E r \in SubmitIds : ~FetchMicrotaskPending /\ DlProcSucceeds(r)
    \/ \E r \in SubmitIds : ~FetchMicrotaskPending /\ DlHudShown(r)

SpecFetch == InitFetch /\ [][NextFetch]_vars

\* ======================================== brewInstall: the lines of a chunk
\* String.prototype.slice(0, n)
slice0(str, n) == SubSeq(str, 1, IF Len(str) < n THEN Len(str) ELSE n)

\* the longest line handed to onLine
LineLimit == 100

\* proc.all.on("data", ...) of brewInstall and installHomebrew: the arguments
\* of the calls of onLine, in order
onLineData(text) ==
    LET ls == nonEmptyLines(text) IN
    [i \in 1..Len(ls) |-> slice0(trim(ls[i]), LineLimit)]

\* what a chunk is written from: a newline, a blank, a letter and a line
\* longer than the limit
ChunkPieces == { <<"\n">>, <<" ">>, <<"a">>, [i \in 1..(LineLimit + 1) |-> "x"] }

RECURSIVE Concat(_)
Concat(ps) == IF ps = <<>> THEN <<>> ELSE Head(ps) \o Concat(Tail(ps))

Chunks == {Concat(ps) : ps \in UNION {[1..n -> ChunkPieces] : n \in 1..MaxPieces}}

InitLines ==
    /\ fs = {join(InstallPrefix, "brew")}
    /\ deps = NullDeps
    /\ installing = FALSE
    /\ steps = [k \in StepKeys |-> IDLE]
    /\ runs = [r \in RunIds |-> FreeRun]
    /\ TrimIdle /\ ParseIdle
    /\ StreamIdle /\ ProbeIdle /\ FormatIdle /\ FetchIdle
    /\ chunk \in Chunks
    /\ passed = <<>>

notLines == <<fs, setupVars, trimVars, parseVars, streamVars, probeVars,
              formatVars, fetchVars>>

\* the data event of the `brew install` process that carries the chunk
BrewData ==
    /\ passed = <<>>
    /\ passed' = onLineData(chunk)
    /\ UNCHANGED chunk
    /\ UNCHANGED notLines

\* the data event of the Homebrew install script that carries the chunk
HomebrewData ==
    /\ passed = <<>>
    /\ passed' = onLineData(chunk)
    /\ UNCHANGED chunk
    /\ UNCHANGED notLines

NextLines ==
    \/ BrewData
    \/ HomebrewData

SpecLines == InitLines /\ [][NextLines]_vars

\* ===================================================== getBinPath, checkDeps
ToolNames == {"brew", "yt-dlp", "ffmpeg"}

\* every file getBinPath can look at
CanonicalFiles == {join(BREW_PATHS[i], n) : i \in 1..Len(BREW_PATHS), n \in ToolNames}

InitLocate ==
    /\ fs \in SUBSET CanonicalFiles
    /\ deps = NullDeps
    /\ installing = FALSE
    /\ steps = [k \in StepKeys |-> IDLE]
    /\ runs = [r \in RunIds |-> FreeRun]
    /\ TrimIdle /\ ParseIdle
    /\ StreamIdle /\ LinesIdle /\ ProbeIdle /\ FormatIdle /\ FetchIdle

notProbe == <<setupVars, trimVars, parseVars, streamVars, linesVars,
              formatVars, fetchVars>>

GetBinPathCall(name) ==
    /\ located' = [name |-> name, path |-> getBinPath(fs, name)]
    /\ UNCHANGED <<fs, report, earlier>>
    /\ UNCHANGED notProbe

NextLocate == \E n \in ToolNames : GetBinPathCall(n)

SpecLocate == InitLocate /\ [][NextLocate]_vars

\* the files that come and go while checkDeps is called: Homebrew in its two
\* prefixes, the downloader and the transcoder in the first
ProbeFiles == { join(BREW_PATHS[1], "brew"), join(BREW_PATHS[2], "brew"),
                join(BREW_PATHS[1], "yt-dlp"), join(BREW_PATHS[1], "ffmpeg") }

InitProbe ==
    /\ fs \in SUBSET ProbeFiles
    /\ deps = NullDeps
    /\ installing = FALSE
    /\ steps = [k \in StepKeys |-> IDLE]
    /\ runs = [r \in RunIds |-> FreeRun]
    /\ TrimIdle /\ ParseIdle
    /\ StreamIdle /\ LinesIdle /\ ProbeIdle /\ FormatIdle /\ FetchIdle

\* something outside the extension installs or removes a file
FileAppears(file) ==
    /\ file \notin fs
    /\ fs' = fs \cup {file}
    /\ UNCHANGED probeVars
    /\ UNCHANGED notProbe

FileVanishes(file) ==
    /\ file \in fs
    /\ fs' = fs \ {file}
    /\ UNCHANGED probeVars
    /\ UNCHANGED notProbe

\* faulty variant: the first result is kept and handed out again
CheckDepsCall_Cached ==
    /\ report' = IF report # NullDeps THEN report ELSE checkDeps(fs)
    /\ earlier' = report
    /\ UNCHANGED <<fs, located>>
    /\ UNCHANGED notProbe

\* a call of checkDeps: its six probes run in one synchronous block
CheckDepsCall ==
    /\ report' = checkDeps(fs)
    /\ earlier' = report
    /\ UNCHANGED <<fs, located>>
    /\ UNCHANGED notProbe

NextProbe ==
    \/ \E file \in ProbeFiles : FileAppears(file)
    \/ \E file \in ProbeFiles : FileVanishes(file)
    \/ CheckDepsCall

SpecProbe == InitProbe /\ [][NextProbe]_vars

\* =========================================================== formatDuration
DigitChar(d) == CASE d = 0 -> "0" [] d = 1 -> "1" [] d = 2 -> "2" [] d = 3 -> "3"
                  [] d = 4 -> "4" [] d = 5 -> "5" [] d = 6 -> "6" [] d = 7 -> "7"
                  [] d = 8 -> "8" [] d = 9 -> "9"

\* String(n) for a non-negative integer
RECURSIVE String(_)
String(n) == IF n < 10 THEN <<DigitChar(n)>>
             ELSE String(n \div 10) \o <<DigitChar(n % 10)>>

\* String.prototype.padStart(len, c) for a one-character c
RECURSIVE padStart(_, _, _)
padStart(str, len, c) == IF Len(str) >= len THEN str ELSE padStart(<<c>> \o str, len, c)

\* faulty variant: the minutes are not reduced modulo the hour
formatDuration_WholeMinutes(secs) ==
    LET h == secs \div 3600
        m == secs \div 60
        sec == secs % 60
    IN IF h > 0
       THEN String(h) \o <<":">> \o padStart(String(m), 2, "0") \o <<":">>
            \o padStart(String(sec), 2, "0")
       ELSE padStart(String(m), 2, "0") \o <<":">> \o padStart(String(sec), 2, "0")

\* formatDuration(secs) for a non-negative whole number of seconds
formatDuration(secs) ==
    LET h == secs \div 3600
        m == (secs % 3600) \div 60
        sec == secs % 60
    IN IF h > 0
       THEN String(h) \o <<":">> \o padStart(String(m), 2, "0") \o <<":">>
            \o padStart(String(sec), 2, "0")
       ELSE padStart(String(m), 2, "0") \o <<":">> \o padStart(String(sec), 2, "0")

InitFormat ==
    /\ fs = {}
    /\ deps = NullDeps
    /\ installing = FALSE
    /\ steps = [k \in StepKeys |-> IDLE]
    /\ runs = [r \in RunIds |-> FreeRun]
    /\ TrimIdle /\ ParseIdle
    /\ StreamIdle /\ LinesIdle /\ ProbeIdle /\ FetchIdle
    /\ fsecs \in 0..MaxSecs
    /\ fstr = <<>>
    /\ fback = Null

notFormat == <<fs, setupVars, trimVars, parseVars, streamVars, linesVars,
               probeVars, fetchVars>>

FormatCall ==
    /\ fstr = <<>>
    /\ fstr' = formatDuration(fsecs)
    /\ UNCHANGED <<fsecs, fback>>
    /\ UNCHANGED notFormat

\* parseTimeToSeconds of the formatted duration
ParseBack ==
    /\ fstr # <<>>
    /\ fback = Null
    /\ fback' = parseTimeToSeconds(fstr)
    /\ UNCHANGED <<fsecs, fstr>>
    /\ UNCHANGED notFormat

NextFormat ==
    \/ FormatCall
    \/ ParseBack

SpecFormat == InitFormat /\ [][NextFormat]_vars

\* ======================================================= claims: setup view
AllIdle(st) == \A k \in StepKeys : st[k] = IDLE

Present(f, key) == getBinPath(f, BinName(key)) # Null

\* run r returns in this step
Returns(r) == runs[r].pc # "ended" /\ runs'[r].pc = "ended"

\* an activation of installAll begins in this step
InstallAllStarts == \E r \in RunIds : runs[r].pc = "free" /\ runs'[r].pc = "toast"
                                      /\ runs'[r].kind = "all"

\* the steps after key in the install order
LaterSteps(key) == {StepOrder[j] : j \in (StepIndex(key) + 1)..Len(StepOrder)}

\* freshDeps of run r during the step it takes now
FreshOf(r) == IF runs[r].pc = "toast" THEN checkDeps(fs) ELSE runs[r].fresh

\* the steps installAll run r goes through (marks skipped or running) in this step
ReachedNow(r) ==
    IF runs[r].kind # "all" \/ runs[r] = runs'[r] \/ runs[r].pc \notin {"toast", "wait"}
       \/ runs'[r].failed # "none"
    THEN {}
    ELSE LET from == IF runs[r].pc = "toast" THEN 1 ELSE StepIndex(runs[r].step) + 1
             to   == IF runs'[r].pc = "ended" THEN Len(StepOrder)
                     ELSE StepIndex(runs'[r].step)
         IN {StepOrder[j] : j \in from..to}

\* the install processes run r starts in this step
SpawnedNow(r) ==
    IF runs'[r].pc = "wait" /\ runs[r].pc # "wait" THEN {runs'[r].step}
    ELSE IF runs'[r].pc = "wait" /\ runs[r].step # runs'[r].step THEN {runs'[r].step}
    ELSE {}

\* C1: when a step's install fails in an installAll run, the run starts no
\* install for a later step and every later step is idle when the run ends.
C1_LaterStepsIdleAtEnd ==
    [][\A r \in RunIds :
         (Returns(r) /\ runs'[r].kind = "all" /\ runs'[r].failed # "none") =>
            /\ SpawnedNow(r) = {}
            /\ \A k \in LaterSteps(runs'[r].failed) :
                  /\ steps'[k].state = "idle"
                  /\ \A i \in 1..Len(runs[r].spawned) : runs[r].spawned[i] # k]_vars

\* C2: at most one install process is in flight at any time.
C2_AtMostOneInFlight == Cardinality(InFlight) <= 1

\* C3: a step's state changes only idle->running, running->done,
\* running->error, idle->skipped, or to idle at the start of an installAll run.
C3_AllowedChange(s, t, reset) ==
    \/ s = t
    \/ s = "idle" /\ t \in {"running", "skipped"}
    \/ s = "running" /\ t \in {"done", "error"}
    \/ t = "idle" /\ reset

C3_Transitions ==
    [][\A k \in StepKeys :
         C3_AllowedChange(steps[k].state, steps'[k].state, InstallAllStarts)]_vars

\* C4: an installAll run that finds all three dependencies present starts no
\* install process, ends with all three steps skipped and publishes a fresh
\* snapshot with all three flags true.
C4_AllPresent ==
    [][\A r \in RunIds :
         (/\ runs[r].kind = "all" /\ runs[r].pc = "toast" /\ runs'[r].pc # "toast"
          /\ \A k \in StepKeys : Present(fs, k)) =>
            /\ runs'[r].pc = "ended" /\ runs'[r].failed = "none"
            /\ SpawnedNow(r) = {}
            /\ \A k \in StepKeys : steps'[k].state = "skipped"
            /\ deps' = checkDeps(fs')
            /\ deps'.brew /\ deps'.ytdlp /\ deps'.ffmpeg]_vars

C4_Witness ==
    /\ \E r \in RunIds : runs[r].kind = "all" /\ runs[r].pc = "ended"
                         /\ runs[r].failed = "none"
    /\ \A k \in StepKeys : steps[k].state = "skipped"
    /\ deps # NullDeps /\ deps.brew /\ deps.ytdlp /\ deps.ffmpeg

\* C5: package manager and downloader present, transcoder absent, transcoder
\* install succeeds: the transcoder step goes running -> done, the other two
\* steps end skipped, and the transcoder install is the only process started.
C5_OnlyTranscoder ==
    [][\A r \in RunIds :
         (/\ Returns(r) /\ runs[r].kind = "all" /\ runs[r].pc = "wait"
          /\ runs'[r].failed = "none"
          /\ runs[r].fresh.brew /\ runs[r].fresh.ytdlp /\ ~runs[r].fresh.ffmpeg) =>
            /\ steps[StepOrder[3]].state = "running"
            /\ steps'[StepOrder[3]].state = "done"
            /\ steps'[StepOrder[1]].state = "skipped"
            /\ steps'[StepOrder[2]].state = "skipped"
            /\ runs[r].spawned = <<StepOrder[3]>>]_vars

\* C6 (as claimed): a step whose dependency is on the filesystem when the run
\* reaches it is marked skipped and gets no install process; a step is
\* installed only if its dependency is absent at that moment.
C6_SkipsByFilesystem ==
    [][\A r \in RunIds : \A k \in ReachedNow(r) :
         Present(fs', k) => steps'[k].state = "skipped" /\ k \notin SpawnedNow(r)]_vars

\* C6 (amended): a step whose dependency is present in the snapshot the run
\* took at its start is marked skipped and gets no install process; a step is
\* marked running (its install begun) only if it is absent in that snapshot.
C6_SkipsBySnapshot ==
    [][\A r \in RunIds : \A k \in ReachedNow(r) :
         IF FreshOf(r)[k]
         THEN steps'[k].state = "skipped" /\ k \notin SpawnedNow(r)
         ELSE steps'[k].state = "running" /\ runs'[r].step = k
              /\ runs'[r].pc \in {"wait", "threw"}]_vars

\* a run waits on the transcoder install after skipping the downloader, which
\* its snapshot showed present
C6_Witness ==
    \E r \in RunIds :
        /\ runs[r].kind = "all" /\ runs[r].pc = "wait" /\ runs[r].step = "ffmpeg"
        /\ runs[r].fresh.ytdlp /\ ~runs[r].fresh.brew
        /\ steps["ytdlp"].state = "skipped"
        /\ runs[r].spawned = <<"brew", "ffmpeg">>

\* C7: the start of an installAll run resets all three steps to idle with an
\* empty log, and the run has marked nothing yet.
C7_ResetAtStart ==
    [][\A r \in RunIds :
         (runs[r].pc = "free" /\ runs'[r].pc # "free" /\ runs'[r].kind = "all") =>
            /\ AllIdle(steps')
            /\ runs'[r].pc = "toast" /\ runs'[r].spawned = <<>>]_vars

\* a second installAll run has just begun after a run that ended in an error
C7_Witness ==
    \E r, q \in RunIds :
        /\ runs[r].kind = "all" /\ runs[r].pc = "toast"
        /\ runs[q].pc = "ended" /\ runs[q].failed # "none"
        /\ AllIdle(steps)

\* ========================================================= claims: trim form
\* C8: a submission whose start and end both parse with start >= end spawns
\* no downloader and reports a validation failure; one with start < end is
\* accepted and downloadVideo is invoked once the toast is shown.
C8_Validation ==
    \A r \in DlIds :
        dls[r].pc \notin {"free", "ended"} =>
            LET startSecs == parseTimeToSeconds(dls[r].values.startTime)
                endSecs   == parseTimeToSeconds(dls[r].values.endTime)
            IN /\ (startSecs # Null /\ endSecs # Null /\ startSecs[1] >= endSecs[1]) =>
                     /\ dls[r].pc = "rejected"
                     /\ ~dls[r].invoked /\ dls[r].args = <<>>
                     /\ dls[r].toast = "Invalid trim range"
               /\ (startSecs # Null /\ endSecs # Null /\ startSecs[1] < endSecs[1]) =>
                     /\ dls[r].pc # "rejected"
                     /\ dls[r].pc # "toast" => dls[r].invoked

\* start "00:10", end "00:05" was submitted and rejected
C8_Witness ==
    \E r \in DlIds :
        /\ dls[r].pc = "rejected"
        /\ dls[r].values.startTime = <<"0", "0", ":", "1", "0">>
        /\ dls[r].values.endTime = <<"0", "0", ":", "0", "5">>

\* the form values with every time that fails to parse left blank
C9_Blanked(values) ==
    [values EXCEPT
        !.startTime = IF parseTimeToSeconds(@) = Null THEN <<>> ELSE @,
        !.endTime   = IF parseTimeToSeconds(@) = Null THEN <<>> ELSE @]

\* C9: a time that fails to parse is treated like an absent one: the
\* downloader gets the argument list it gets with that field left blank.
C9_UnparsedLikeBlank ==
    \A r \in DlIds :
        dls[r].pc = "wait" =>
            dls[r].args = downloadArgs(submitOpts(C9_Blanked(dls[r].values)),
                                       getBinPath(fs, "ffmpeg"))

\* ================================================ claims: timestamp parsing
\* a component that is a number written out in digits
C10_Numeric(c) == c # <<>> /\ \A i \in 1..Len(c) : c[i] \in Digits

\* rightmost component seconds, the next minutes, the one after hours
C10_Value(cs) ==
    LET n == Len(cs) IN
    decimal(cs[n], 0)
    + (IF n >= 2 THEN 60 * decimal(cs[n - 1], 0) ELSE 0)
    + (IF n >= 3 THEN 3600 * decimal(cs[n - 2], 0) ELSE 0)

\* C10: parseTimeToSeconds returns seconds + 60 * minutes + 3600 * hours,
\* counted from the rightmost component, when every component is numeric,
\* and the absent value when any component is not.
C10_ParseRule ==
    pdone =>
        pout = IF \A i \in 1..Len(pcomps) : C10_Numeric(pcomps[i])
               THEN Some(C10_Value(pcomps))
               ELSE Null

\* ================================================= claims: downloader output
\* the whole lines of the downloader's output
C11_Lines == nonEmptyLines(out)

\* the path of the last line of ls that announces a destination or a
\* completed merge, or Null when no line does
RECURSIVE C11_LastAnnounced(_)
C11_LastAnnounced(ls) ==
    IF ls = <<>> THEN Null
    ELSE IF destMatch(ls[Len(ls)]) # Null THEN Some(trim(destMatch(ls[Len(ls)])[1]))
    ELSE C11_LastAnnounced(SubSeq(ls, 1, Len(ls) - 1))

\* C11: after a successful exit downloadVideo has returned the path of the
\* last destination or merge-complete line of the output, and the output
\* directory when the output has no such line.
C11_LastAnnouncementWins ==
    (ret # Null /\ ret # Rejected) =>
        ret = IF C11_LastAnnounced(C11_Lines) # Null
              THEN C11_LastAnnounced(C11_Lines)
              ELSE Some(Lit(outDir))

\* the percentages of the lines of ls, each rounded to the nearest integer
RECURSIVE C12_Percentages(_)
C12_Percentages(ls) ==
    IF ls = <<>> THEN <<>>
    ELSE (IF pctMatch(Head(ls)) # Null
          THEN <<roundFloat(pctMatch(Head(ls))[1])>> ELSE <<>>)
         \o C12_Percentages(Tail(ls))

\* C12: once the whole output has arrived, onProgress has been invoked once
\* for every line with a percentage, with that percentage rounded, in order,
\* and never for a line without one.
C12_OncePerPercentLine ==
    sent = Len(out) => calls = C12_Percentages(C11_Lines)

\* C13: every value passed to onProgress is an integer from 0 to 100.
C13_WithinPercentRange ==
    \A i \in 1..Len(calls) : calls[i] \in 0..100

\* ==================================================== claims: trim arguments
C14_Has(args, flag) == \E i \in 1..Len(args) : args[i] = Lit(flag)

\* C14: the downloader gets the section argument and the keyframe flag
\* exactly when a start other than the zero time or an end is given; a start
\* that denotes zero, in whatever form, with no end gives neither; the range
\* runs from the start, or 0, to the end, or inf.
C14_SectionRule ==
    \A r \in DlIds :
        dls[r].pc = "wait" =>
            LET opts   == submitOpts(dls[r].values)
                zero   == parseTimeToSeconds(dls[r].values.startTime) = Some(0)
                wanted == (Truthy(opts.startTime) /\ ~zero) \/ Truthy(opts.endTime)
                range  == <<"*">> \o OrElse(opts.startTime, <<"0">>) \o <<"-">>
                          \o OrElse(opts.endTime, <<"i", "n", "f">>)
            IN /\ C14_Has(dls[r].args, "--download-sections") <=> wanted
               /\ C14_Has(dls[r].args, "--force-keyframes-at-cuts") <=> wanted
               /\ wanted => \E i \in 1..Len(dls[r].args) : dls[r].args[i] = range

\* ================================================ claims: missing dependency
\* C15: fetchVideoInfo called without the downloader on disk spawns nothing
\* and rejects with the error that names yt-dlp; downloadVideo called without
\* the downloader or the transcoder spawns nothing and rejects with the error
\* that names the missing tool.
C15_MissingDependency ==
    [][/\ \A r \in FetchIds :
            (fetches[r].pc = "toast" /\ fetches'[r].pc # "toast") =>
                IF getBinPath(fs, "yt-dlp") = Null
                THEN /\ fetches'[r].pc = "threw" /\ ~fetches'[r].spawned
                     /\ fetches'[r].toast =
                          "Error: yt-dlp not installed. Run the Setup command first."
                ELSE fetches'[r].pc = "wait" /\ fetches'[r].spawned
       /\ \A r \in DOMAIN dls :
            (dls[r].pc = "toast" /\ dls'[r].pc # "toast") =>
                IF getBinPath(fs, "yt-dlp") = Null
                THEN /\ dls'[r].pc = "threw" /\ dls'[r].args = <<>>
                     /\ dls'[r].toast = "Error: yt-dlp not installed. Run the Setup command."
                ELSE IF getBinPath(fs, "ffmpeg") = Null
                THEN /\ dls'[r].pc = "threw" /\ dls'[r].args = <<>>
                     /\ dls'[r].toast = "Error: ffmpeg not installed. Run the Setup command."
                ELSE dls'[r].pc = "wait" /\ dls'[r].args # <<>>]_vars

\* downloadVideo has just rejected for the missing transcoder, after a fetch
\* that rejected without spawning and one that succeeded
C15_Witness ==
    /\ \E r \in DOMAIN dls :
          /\ dls[r].pc = "threw"
          /\ dls[r].toast = "Error: ffmpeg not installed. Run the Setup command."
    /\ \E r \in FetchIds :
          /\ fetches[r].pc = "ended" /\ ~fetches[r].spawned
          /\ fetches[r].toast = "Could not fetch video"

\* ==================================================== claims: line callback
\* C16: every line handed to the line callback is non-empty and at most 100
\* characters long.
C16_LinesBounded ==
    \A i \in 1..Len(passed) : passed[i] # <<>> /\ Len(passed[i]) <= 100

\* ================================================ claims: binary resolution
\* the canonical directories: ARM Homebrew, Intel Homebrew, system
C17_Order == <<"/opt/homebrew/bin", "/usr/local/bin", "/usr/bin">>

\* the positions in C17_Order of the directories of f that hold name
C17_Holding(f, name) == {i \in 1..Len(C17_Order) : <<C17_Order[i], name>> \in f}

\* the file called name in the first directory that holds one, or Null
C17_First(f, name) ==
    IF C17_Holding(f, name) = {} THEN Null
    ELSE LET i == CHOOSE j \in C17_Holding(f, name) :
                      \A k \in C17_Holding(f, name) : j <= k
         IN <<C17_Order[i], name>>

\* C17: getBinPath(name) returns the path in the first of the three
\* directories, in the order ARM Homebrew, Intel Homebrew, system, that holds
\* a file called name, and the absent value when none does.
C17_FirstDirectoryWins ==
    located # NotLocated => located.path = C17_First(fs, located.name)

\* the file is in the Intel and the system directory only, and the Intel one
\* was returned
C17_Witness ==
    /\ located # NotLocated
    /\ C17_Holding(fs, located.name) = {2, 3}
    /\ located.path = <<"/usr/local/bin", located.name>>

\* what probing f for each tool by itself gives
C18_Probed(f) ==
    [ brew       |-> C17_Holding(f, "brew") # {},
      ytdlp      |-> C17_Holding(f, "yt-dlp") # {},
      ffmpeg     |-> C17_Holding(f, "ffmpeg") # {},
      brewPath   |-> C17_First(f, "brew"),
      ytdlpPath  |-> C17_First(f, "yt-dlp"),
      ffmpegPath |-> C17_First(f, "ffmpeg") ]

\* C18: every call of checkDeps resolves with the flags and paths the
\* filesystem gives at that call, whatever an earlier call resolved with.
C18_NoCache ==
    [][fs' = fs => report' = C18_Probed(fs) /\ earlier' = report]_vars

\* two calls with an installation or a removal between them: the later one
\* reports the filesystem as it is now and differs from the one before
C18_Witness ==
    /\ earlier # NullDeps
    /\ report # earlier
    /\ report = C18_Probed(fs)
    /\ earlier.ytdlp /\ ~report.ytdlp
    /\ ~earlier.brew /\ report.brew

\* ================================================== claims: formatDuration
\* a component of two decimal digits
C19_TwoDigits(c) == Len(c) = 2 /\ c[1] \in Digits /\ c[2] \in Digits

\* C19: formatDuration writes h:mm:ss from one hour on and mm:ss below it
\* (3723 is "1:02:03", 125 is "02:05"), and parseTimeToSeconds of the result
\* is the number of seconds formatted.
C19_RoundTrip ==
    /\ fstr # <<>> =>
          LET parts == split(fstr, ":") IN
          /\ Len(parts) = IF fsecs >= 3600 THEN 3 ELSE 2
          /\ C19_TwoDigits(parts[Len(parts)])
          /\ C19_TwoDigits(parts[Len(parts) - 1])
          /\ fsecs >= 3600 => /\ parts[1] # <<>> /\ parts[1][1] # "0"
                              /\ \A i \in 1..Len(parts[1]) : parts[1][i] \in Digits
          /\ fsecs = 3723 => fstr = <<"1", ":", "0", "2", ":", "0", "3">>
          /\ fsecs = 125 => fstr = <<"0", "2", ":", "0", "5">>
          /\ parseTimeToSeconds(fstr) = Some(fsecs)
    /\ fback # Null => fback = Some(fsecs)

\* 3723 seconds were formatted as "1:02:03" and parsed back
C19_Witness ==
    /\ fsecs = 3723
    /\ fstr = <<"1", ":", "0", "2", ":", "0", "3">>
    /\ fback = Some(3723)

\* ===================================================== claims: runs that end
\* the steps a run works on: all three for installAll, its own for installSingle
C20_StepsOf(run) == IF run.kind = "all" THEN StepKeys ELSE {run.key}

\* C20: a run whose toasts and processes finish ends, and when it ends,
\* however it ends, installing is false and none of its steps is running.
C20_RunsEndClean ==
    /\ \A r \in RunIds : (runs[r].pc \notin {"free", "ended"}) ~> (runs[r].pc = "ended")
    /\ [][\A r \in RunIds :
            Returns(r) =>
               /\ installing' = FALSE
               /\ \A k \in C20_StepsOf(runs'[r]) : steps'[k].state # "running"]_vars

\* ---------------------------------------------------------------------- C21
\* the step taken by activation r of installSingle
SingleStep(r) == runs'[r] # runs[r] /\ runs'[r].kind = "single"

\* only the step of key differs between steps and steps'
OnlyStep(key) == \A k \in StepKeys \ {key} : steps'[k] = steps[k]

\* a line callback ran: the steps changed while no activation moved
LineCallback == runs' = runs /\ steps' # steps

\* C21: a run of installSingle(pkg) changes the step of pkg only: it marks the
\* step running when it starts, done when the install succeeds, publishing in
\* the same turn the dependency snapshot probed afresh, and error when the
\* install fails, which includes the absent package manager, where no process
\* was spawned; the other two steps keep their state and log through every
\* step of the run, and a line callback changes nothing but the log of the
\* step of the process that wrote the line.
C21_SingleChangesOwnStep ==
    [][ /\ \A r \in RunIds : SingleStep(r) =>
            LET key == runs'[r].key IN
            /\ OnlyStep(key)
            /\ runs[r].pc = "free" => steps'[key].state = "running"
            /\ runs[r].pc = "toast" => steps' = steps
            /\ (Returns(r) /\ runs'[r].failed = "none") =>
                    /\ runs[r].pc = "wait"
                    /\ steps'[key].state = "done"
                    /\ deps' = checkDeps(fs')
            /\ (Returns(r) /\ runs'[r].failed # "none") =>
                    /\ runs'[r].failed = key
                    /\ steps'[key].state = "error"
                    /\ runs[r].pc = "threw" => runs[r].spawned = <<>>
        /\ LineCallback =>
            \E r \in InFlight :
                /\ OnlyStep(runs[r].step)
                /\ steps'[runs[r].step].state = steps[runs[r].step].state
                /\ runs[r].kind = "single" => runs[r].step = runs[r].key
      ]_vars

\* installSingle("ffmpeg") has ended with its step done and the transcoder in
\* the published snapshot, after installSingle("yt-dlp") failed: the step of
\* yt-dlp still shows its error, the Homebrew step was never touched
C21_Witness ==
    \E r, q \in RunIds :
        /\ runs[r].kind = "single" /\ runs[r].key = "ffmpeg"
        /\ runs[r].pc = "ended" /\ runs[r].failed = "none"
        /\ runs[q].kind = "single" /\ runs[q].key = "ytdlp"
        /\ runs[q].pc = "ended" /\ runs[q].failed = "ytdlp"
        /\ steps["ffmpeg"].state = "done" /\ deps["ffmpeg"]
        /\ steps["ytdlp"].state = "error"
        /\ steps["brew"] = IDLE

\* ---------------------------------------------------------------------- C22
\* C22: whatever submit actions are taken on one trim form, at most one
\* downloader process started by the form is in flight at a time; and whatever
\* fetch actions are taken on the download view, at most one metadata fetch is
\* in flight at a time.
C22_AtMostOneInFlight ==
    /\ Cardinality(DlInFlight) <= 1
    /\ Cardinality(FetchInFlight) <= 1

\* ---------------------------------------------------------------------- C23
\* C23: whenever an install process started by the setup view, by installAll
\* or by installSingle, is in flight, the view's installing flag is true,
\* however the install runs interleave.
C23_InstallingWhileInFlight == InFlight # {} => installing

\* ---------------------------------------------------------------------- C24
\* no activation of installAll or installSingle is pending
NoRunInProgress == \A r \in RunIds : runs[r].pc \in {"free", "ended"}

\* C24: whenever no install run of the setup view is in progress, every step
\* in state done has its dependency present in the snapshot the view has
\* published, after successful and after failed runs of installAll and
\* installSingle alike (nothing removes an installed tool).
C24_DoneIsPublished ==
    NoRunInProgress => \A k \in StepKeys : steps[k].state = "done" => deps[k]
====
